---- MODULE Spec2Model ----
(***************************************************************************)
(* State-machine model of the Chat component of src/src/app/page.tsx:     *)
(* the React state of the page, the two asynchronous handlers             *)
(* (handleSubmit, generatePersona) split at their await points, and the   *)
(* render-time guards (hidden form, disabled input and buttons).          *)
(*                                                                         *)
(* Every handler segment between two awaits runs to completion on the     *)
(* single JavaScript thread, and React flushes the state updates of a     *)
(* segment before the next user event is dispatched, so one segment is    *)
(* one action.  A pending call keeps the closure of the render in which   *)
(* its handler was invoked: the chatState it captured is stored with it.  *)
(***************************************************************************)
EXTENDS Integers, Sequences, FiniteSets, TLC

VARIABLES
    input,                \* useState("")            page.tsx:88
    isLoading,            \* useState(false)         page.tsx:91
    showPersonaPopup,     \* useState(false)         page.tsx:94
    personaData,          \* useState("")            page.tsx:97
    isGeneratingPersona,  \* useState(false)         page.tsx:100
    isTerminated,         \* useState(false)         page.tsx:102
    chatState,            \* useState<ChatState>     page.tsx:105
    shouldContinue,       \* useState(true)          page.tsx:111
    chatCalls,            \* handleSubmit invocations suspended at the fetch of page.tsx:269
    personaCalls,         \* generatePersona invocations suspended at the fetch of page.tsx:206
    alertText,            \* the text of the alert() dialog shown last, "" when none was
    now,                  \* the value Date.now() / new Date() returns
    last,                 \* history: the handler segment that ran last, with the chatState before it
    seen                  \* history: what the processed responses have reported so far

vars == <<input, isLoading, showPersonaPopup, personaData, isGeneratingPersona,
          isTerminated, chatState, shouldContinue, chatCalls, personaCalls,
          alertText, now, last, seen>>

(***************************************************************************)
(* Bounds of the exploration.                                              *)
(***************************************************************************)
MaxTurns == 3       \* chat submissions per behaviour
MaxLen == 2         \* longest per-trait array a response carries
MaxTime == 1        \* clock ticks per behaviour
MaxHistory == 3     \* longest assessment history the aggregation is applied to

(***************************************************************************)
(* JavaScript values.  An optional value is Undefined, Null or Val(v), so *)
(* that absent and present values can be compared.                        *)
(***************************************************************************)
Undefined == <<"undefined">>
Null == <<"null">>
Val(v) == <<"val", v>>
IsVal(o) == Len(o) = 2
Get(o) == o[2]

\* x || null  (page.tsx:278): the stored blob is an object or undefined
OrNull(o) == IF IsVal(o) THEN o ELSE Null

\* x || []  (page.tsx:322-325)
OrEmpty(o) == IF IsVal(o) THEN Get(o) ELSE <<>>

\* arr[i] with a zero-based index; out of range reads give undefined
At(arr, i) == IF i >= 0 /\ i < Len(arr) THEN Val(arr[i + 1]) ELSE Undefined

\* truthiness of an optional string (sentences[i], page.tsx:355)
Truthy(o) == IsVal(o) /\ Get(o) # ""

Max2(a, b) == IF a >= b THEN a ELSE b

\* Math.max(a, b, c, d)  (page.tsx:345)
MathMax(a, b, c, d) == Max2(Max2(a, b), Max2(c, d))

\* the traits array, in its order  (page.tsx:119-126)
traits == <<"awareness", "self_control", "preparedness", "information_seeking",
            "risk_seeking", "reaction_to_external_events">>

Traits == {traits[i] : i \in 1..Len(traits)}

(***************************************************************************)
(* Text typed into the input box, and String.prototype.trim on it.        *)
(***************************************************************************)
Inputs == {"", "  ", " hi "}

trim(s) == CASE s = "" -> ""
             [] s = "  " -> ""
             [] s = " hi " -> "hi"

(***************************************************************************)
(* Backend payloads.  updated_state is a record holding the flags and, for *)
(* each trait, the four arrays `${trait}_score`, `${trait}_confidence`,    *)
(* `${trait}_sentences`, `${trait}_rationale`, each an array or absent.    *)
(***************************************************************************)
Fill(n, v) == [i \in 1..n |-> v]

\* the score and the confidence the backend reports at a (one-based) position
ScoreAt(i) == 1 + (i % 5)
ConfidenceAt(i) == 10 - (i % 10)

Absent == [score |-> Undefined, confidence |-> Undefined,
           sentences |-> Undefined, rationale |-> Undefined]

\* four parallel arrays of the same length n, every slot filled
Aligned(n) == [score |-> Val([i \in 1..n |-> ScoreAt(i)]),
               confidence |-> Val([i \in 1..n |-> ConfidenceAt(i)]),
               sentences |-> Val(Fill(n, "s")),
               rationale |-> Val(Fill(n, "why"))]

\* four parallel arrays of the same length n with empty sentences
Silent(n) == [score |-> Val([i \in 1..n |-> ScoreAt(i)]),
              confidence |-> Val([i \in 1..n |-> ConfidenceAt(i)]),
              sentences |-> Val(Fill(n, "")),
              rationale |-> Val(Fill(n, "why"))]

\* only sentences: h empty ones followed by k non-empty ones
Holes(h, k) == [score |-> Val(<<>>), confidence |-> Val(<<>>),
                sentences |-> Val(Fill(h, "") \o Fill(k, "s")),
                rationale |-> Val(<<>>)]

\* one array of length n, the other three empty
Ragged(which, n) ==
    [score |-> Val(IF which = "score" THEN [i \in 1..n |-> ScoreAt(i)] ELSE <<>>),
     confidence |-> Val(IF which = "confidence" THEN [i \in 1..n |-> ConfidenceAt(i)] ELSE <<>>),
     sentences |-> Val(IF which = "sentences" THEN Fill(n, "s") ELSE <<>>),
     rationale |-> Val(IF which = "rationale" THEN Fill(n, "why") ELSE <<>>)]

ArrayNames == {"score", "confidence", "sentences", "rationale"}

\* the shapes one trait's arrays take in a response
TraitPayloads ==
    {Absent}
    \cup {Aligned(n) : n \in 0..MaxLen}
    \cup {Silent(n) : n \in 1..MaxLen}
    \cup {Holes(h, k) : <<h, k>> \in {hk \in (1..MaxLen) \X (0..MaxLen) : hk[1] + hk[2] <= MaxLen}}
    \cup {Ragged(which, n) : which \in ArrayNames, n \in 1..MaxLen}

\* updated_state of a /chat response
UpdatedState(cont, persona, priority, iteration, payloadOf) ==
    [continue_conversation |-> cont,
     persona |-> persona,
     current_priority |-> priority,
     current_iteration |-> iteration,
     score |-> [t \in Traits |-> payloadOf[t].score],
     confidence |-> [t \in Traits |-> payloadOf[t].confidence],
     sentences |-> [t \in Traits |-> payloadOf[t].sentences],
     rationale |-> [t \in Traits |-> payloadOf[t].rationale]]

\* only the first trait carries arrays
OnFirst(p) == [t \in Traits |-> IF t = traits[1] THEN p ELSE Absent]

\* the first k traits carry the same arrays
OnPrefix(k, p) == [t \in Traits |-> IF \E i \in 1..k : traits[i] = t THEN p ELSE Absent]

\* the JSON body of a /chat response
Data(response, us) == [response |-> response, updated_state |-> us]

NoData == Data("", Undefined)

\* the responses of the reconciliation runs: the conversation goes on, the
\* first trait takes every shape, or every trait reports n aligned entries
ReconResponses ==
    {Data("hello", Val(UpdatedState(TRUE, "", traits[1], 1, OnFirst(p)))) : p \in TraitPayloads}
    \cup {Data("hello", Val(UpdatedState(TRUE, "", traits[2], 2, OnPrefix(Len(traits), Aligned(n))))) :
            n \in 1..MaxLen}

(***************************************************************************)
(* Reconciliation of a response against the trait data  (page.tsx:316-369) *)
(***************************************************************************)
\* the length of the longest of a trait's four arrays in updated_state
arraysLength(us, trait) ==
    MathMax(Len(OrEmpty(us.score[trait])), Len(OrEmpty(us.sentences[trait])),
            Len(OrEmpty(us.rationale[trait])), Len(OrEmpty(us.confidence[trait])))

\* chatState.traitData.filter((t) => t.trait === trait).length
existingCount(traitData, trait) ==
    Cardinality({j \in 1..Len(traitData) : traitData[j].trait = trait})

\* the for loop of page.tsx:353-367, from index i, pushing onto newTraitData
RECURSIVE pushLoop(_, _, _, _, _, _, _, _, _)
pushLoop(trait, scores, confidences, sentences, rationales, i, maxLength, currentTime, newTraitData) ==
    IF i >= maxLength THEN newTraitData
    ELSE IF Truthy(At(sentences, i)) \/ At(scores, i) # Undefined
         THEN pushLoop(trait, scores, confidences, sentences, rationales, i + 1, maxLength, currentTime,
                       Append(newTraitData,
                              [trait |-> trait,
                               score |-> At(scores, i),
                               confidence |-> At(confidences, i),
                               sentence |-> At(sentences, i),
                               rationale |-> At(rationales, i),
                               timestamp |-> currentTime + Len(newTraitData)]))
         ELSE pushLoop(trait, scores, confidences, sentences, rationales, i + 1, maxLength, currentTime,
                       newTraitData)

\* mutant of extractTrait: the loop starts at index 0 instead of existingCount
extractTrait_fromZero(us, traitData, trait, currentTime, newTraitData) ==
    LET scores == OrEmpty(us.score[trait])
        confidences == OrEmpty(us.confidence[trait])
        sentences == OrEmpty(us.sentences[trait])
        rationales == OrEmpty(us.rationale[trait])
        count == existingCount(traitData, trait)
    IN  IF Len(scores) > count \/ Len(sentences) > count \/ Len(rationales) > count
        THEN pushLoop(trait, scores, confidences, sentences, rationales, 0,
                      MathMax(Len(scores), Len(sentences), Len(rationales), Len(confidences)),
                      currentTime, newTraitData)
        ELSE newTraitData

\* the body of traits.forEach for one trait  (page.tsx:321-369)
extractTrait(us, traitData, trait, currentTime, newTraitData) ==
    LET scores == OrEmpty(us.score[trait])
        confidences == OrEmpty(us.confidence[trait])
        sentences == OrEmpty(us.sentences[trait])
        rationales == OrEmpty(us.rationale[trait])
        count == existingCount(traitData, trait)
    IN  IF Len(scores) > count \/ Len(sentences) > count \/ Len(rationales) > count
        THEN pushLoop(trait, scores, confidences, sentences, rationales, count,
                      MathMax(Len(scores), Len(sentences), Len(rationales), Len(confidences)),
                      currentTime, newTraitData)
        ELSE newTraitData

\* traits.forEach from the k-th trait on
RECURSIVE extractFrom(_, _, _, _, _)
extractFrom(us, traitData, k, currentTime, newTraitData) ==
    IF k > Len(traits) THEN newTraitData
    ELSE extractFrom(us, traitData, k + 1, currentTime,
                     extractTrait(us, traitData, traits[k], currentTime, newTraitData))

\* newTraitData once traits.forEach has run; traitData is the closure's chatState.traitData
extractNewTraitData(us, traitData, currentTime) ==
    extractFrom(us, traitData, 1, currentTime, <<>>)

\* history: the <<trait, index>> pairs for which the loop of page.tsx:353-367
\* pushes a record when it runs for the trait
pushedIndices(us, traitData, trait) ==
    LET scores == OrEmpty(us.score[trait])
        sentences == OrEmpty(us.sentences[trait])
        rationales == OrEmpty(us.rationale[trait])
        count == existingCount(traitData, trait)
    IN  IF Len(scores) > count \/ Len(sentences) > count \/ Len(rationales) > count
        THEN {<<trait, i>> : i \in {i \in count..(arraysLength(us, trait) - 1) :
                                        Truthy(At(sentences, i)) \/ At(scores, i) # Undefined}}
        ELSE {}

(***************************************************************************)
(* getLatestTraitScores  (page.tsx:145-177).  An average is kept as the    *)
(* pair <<total, count>> it is the quotient of.                            *)
(***************************************************************************)
\* data.confidence || 0
OrZero(o) == IF IsVal(o) /\ Get(o) # 0 THEN Get(o) ELSE 0

\* mutant of aggregateKeys: a key is inserted for unscored assessments too
RECURSIVE aggregateKeys_all(_, _, _)
aggregateKeys_all(traitData, j, keys) ==
    IF j > Len(traitData) THEN keys
    ELSE IF ~(\E k \in 1..Len(keys) : keys[k] = traitData[j].trait)
         THEN aggregateKeys_all(traitData, j + 1, Append(keys, traitData[j].trait))
         ELSE aggregateKeys_all(traitData, j + 1, keys)

\* the traits in the order their key is first inserted into traitAggregates
RECURSIVE aggregateKeys(_, _, _)
aggregateKeys(traitData, j, keys) ==
    IF j > Len(traitData) THEN keys
    ELSE IF traitData[j].score # Undefined /\ ~(\E k \in 1..Len(keys) : keys[k] = traitData[j].trait)
         THEN aggregateKeys(traitData, j + 1, Append(keys, traitData[j].trait))
         ELSE aggregateKeys(traitData, j + 1, keys)

RECURSIVE sumOver(_, _, _, _)
sumOver(traitData, trait, field, j) ==
    IF j > Len(traitData) THEN 0
    ELSE (IF traitData[j].trait = trait /\ traitData[j].score # Undefined
          THEN (CASE field = "score" -> Get(traitData[j].score)
                  [] field = "confidence" -> OrZero(traitData[j].confidence)
                  [] field = "count" -> 1)
          ELSE 0) + sumOver(traitData, trait, field, j + 1)

getLatestTraitScores(traitData) ==
    LET keys == aggregateKeys(traitData, 1, <<>>)
    IN  [k \in 1..Len(keys) |->
            [trait |-> keys[k],
             score |-> <<sumOver(traitData, keys[k], "score", 1), sumOver(traitData, keys[k], "count", 1)>>,
             confidence |-> <<sumOver(traitData, keys[k], "confidence", 1),
                              sumOver(traitData, keys[k], "count", 1)>>]]

\* const latestScores = getLatestTraitScores()  (page.tsx:406)
latestScores == getLatestTraitScores(chatState.traitData)

(***************************************************************************)
(* Initial state: the useState initialisers.                               *)
(***************************************************************************)
History(op, data) == [op |-> op, pre |-> chatState, data |-> data]

Init ==
    /\ input = ""
    /\ isLoading = FALSE
    /\ showPersonaPopup = FALSE
    /\ personaData = ""
    /\ isGeneratingPersona = FALSE
    /\ isTerminated = FALSE
    /\ chatState = [messages |-> <<>>, traitData |-> <<>>,
                    currentPriority |-> Undefined, currentIteration |-> Undefined,
                    backendState |-> Undefined]
    /\ shouldContinue = TRUE
    /\ chatCalls = <<>>
    /\ personaCalls = <<>>
    /\ alertText = ""
    /\ now = 0
    /\ last = [op |-> "init",
               pre |-> [messages |-> <<>>, traitData |-> <<>>,
                        currentPriority |-> Undefined, currentIteration |-> Undefined,
                        backendState |-> Undefined],
               data |-> NoData]
    /\ seen = [processed |-> Undefined, materialized |-> {}, again |-> {}]

(***************************************************************************)
(* Assessment histories the aggregation is applied to: every sequence of   *)
(* at most MaxHistory records of two traits, scored or not, with the       *)
(* confidence absent or present.                                           *)
(***************************************************************************)
Assessment(trait, score, confidence) ==
    [trait |-> trait, score |-> score, confidence |-> confidence,
     sentence |-> Val("s"), rationale |-> Undefined, timestamp |-> 0]

Assessments ==
    {Assessment(t, s, c) : t \in {traits[1], traits[2]},
                           s \in {Undefined, Val(3), Val(5)},
                           c \in {Undefined, Val(8)}}

RECURSIVE SeqsUpTo(_, _)
SeqsUpTo(S, n) ==
    IF n = 0 THEN {<<>>}
    ELSE LET shorter == SeqsUpTo(S, n - 1)
         IN  shorter \cup {Append(h, r) : h \in {g \in shorter : Len(g) = n - 1}, r \in S}

Histories == SeqsUpTo(Assessments, MaxHistory)

\* a session after one processed turn whose trait data is any of the histories
InitAggregate ==
    LET us == UpdatedState(TRUE, "", traits[1], 1, OnPrefix(0, Absent))
        cs(h) == [messages |-> <<[id |-> 0, type |-> "user", content |-> "hi", timestamp |-> 0],
                                 [id |-> 1, type |-> "ai", content |-> "hello", timestamp |-> 0]>>,
                  traitData |-> h,
                  currentPriority |-> Val(us.current_priority),
                  currentIteration |-> Val(us.current_iteration),
                  backendState |-> Val(us)]
    IN  /\ input = ""
        /\ isLoading = FALSE
        /\ showPersonaPopup = FALSE
        /\ personaData = ""
        /\ isGeneratingPersona = FALSE
        /\ isTerminated = FALSE
        /\ \E h \in Histories :
              /\ chatState = cs(h)
              /\ last = [op |-> "init", pre |-> cs(h), data |-> NoData]
        /\ shouldContinue = TRUE
        /\ chatCalls = <<>>
        /\ personaCalls = <<>>
        /\ alertText = ""
        /\ now = 0
        /\ seen = [processed |-> Val(us), materialized |-> {}, again |-> {}]

(***************************************************************************)
(* What the render shows  (page.tsx:667-711).                              *)
(***************************************************************************)
\* mutant of formRendered: the form is rendered unconditionally
formRendered_always == TRUE

\* {!isTerminated && (<form onSubmit={handleSubmit}> ...)}
formRendered == ~isTerminated

\* <Input disabled={isLoading || !shouldContinue || isTerminated} />
inputDisabled == isLoading \/ ~shouldContinue \/ isTerminated

\* <Button type="submit" disabled={isLoading || !input.trim() || !shouldContinue} />
submitDisabled == isLoading \/ trim(input) = "" \/ ~shouldContinue

\* {chatState.backendState && (<Button onClick={generatePersona} ...)}
personaButtonRendered == IsVal(chatState.backendState)

\* mutant of personaButtonDisabled: isGeneratingPersona is not consulted
personaButtonDisabled_noFlag == Len(latestScores) < 1

\* mutant of personaButtonDisabled: the button is also disabled during a chat call
personaButtonDisabled_whileLoading == isLoading \/ isGeneratingPersona \/ Len(latestScores) < 1

\* disabled={isGeneratingPersona || latestScores.length < 1}
personaButtonDisabled == isGeneratingPersona \/ Len(latestScores) < 1

\* mutant of messageTraitAssessments: the position of the message is not consulted
messageTraitAssessments_anyIndex(index) ==
    LET message == chatState.messages[index + 1]
    IN  {j \in 1..Len(chatState.traitData) :
            LET trait == chatState.traitData[j]
            IN  /\ trait.timestamp > message.timestamp
                /\ (Truthy(trait.sentence) \/ trait.score # Undefined \/ Truthy(trait.rationale))
                /\ message.type = "user"}

\* chatState.traitData.filter(...) for the message at the zero-based index, as
\* the positions of the assessments kept; trait.timestamp is a Date object and
\* so always truthy  (page.tsx:477-494)
messageTraitAssessments(index) ==
    LET message == chatState.messages[index + 1]
    IN  {j \in 1..Len(chatState.traitData) :
            LET trait == chatState.traitData[j]
            IN  /\ trait.timestamp > message.timestamp
                /\ (Truthy(trait.sentence) \/ trait.score # Undefined \/ Truthy(trait.rationale))
                /\ message.type = "user"
                /\ (index = Len(chatState.messages) - 2 \/ index = Len(chatState.messages) - 1)}

Remove(seq, k) == [j \in 1..(Len(seq) - 1) |-> IF j < k THEN seq[j] ELSE seq[j + 1]]

userMessages == Cardinality({j \in 1..Len(chatState.messages) : chatState.messages[j].type = "user"})

(***************************************************************************)
(* User events and handler segments.                                       *)
(***************************************************************************)
\* onChange={(e) => setInput(e.target.value)}  (page.tsx:673)
setInput(v) ==
    /\ formRendered /\ ~inputDisabled
    /\ v # input
    /\ input' = v
    /\ last' = History("setInput", NoData)
    /\ UNCHANGED seen
    /\ UNCHANGED <<isLoading, showPersonaPopup, personaData, isGeneratingPersona, isTerminated,
                   chatState, shouldContinue, chatCalls, personaCalls, alertText, now>>

\* mutant of chatRequestState: the request never carries the stored state
chatRequestState_null(cs) == Null

\* state: chatState.backendState || null  (page.tsx:278)
chatRequestState(cs) == OrNull(cs.backendState)

\* a submit event reaches handleSubmit and passes its guard
\* if (!input.trim() || isLoading) return  (page.tsx:245, 668-684)
submitAccepted ==
    /\ formRendered /\ ~submitDisabled
    /\ ~(trim(input) = "" \/ isLoading)

\* handleSubmit up to its await fetch  (page.tsx:242-280)
handleSubmit ==
    /\ submitAccepted
    /\ userMessages < MaxTurns
    /\ chatState' = [chatState EXCEPT !.messages =
                        Append(@, [id |-> now, type |-> "user", content |-> trim(input), timestamp |-> now])]
    /\ input' = ""
    /\ isLoading' = TRUE
    /\ chatCalls' = Append(chatCalls, [message |-> trim(input),
                                       state |-> chatRequestState(chatState),
                                       closure |-> chatState])
    /\ last' = History("handleSubmit", NoData)
    /\ UNCHANGED seen
    /\ UNCHANGED <<showPersonaPopup, personaData, isGeneratingPersona, isTerminated,
                   shouldContinue, personaCalls, alertText, now>>

\* the text of the message the catch block builds  (page.tsx:390-392)
errorContent(message) ==
    "I apologize, but I'm having trouble connecting right now. Please try again.\nError: " \o message

\* mutant of catchChat: the updater builds a fresh object without ...prev
catchChat_dropsState(message) ==
    /\ chatState' = [messages |-> Append(chatState.messages,
                                         [id |-> now + 1, type |-> "ai", content |-> errorContent(message),
                                          timestamp |-> now]),
                     traitData |-> <<>>,
                     currentPriority |-> Undefined,
                     currentIteration |-> Undefined,
                     backendState |-> Undefined]
    /\ isLoading' = FALSE

\* mutant of catchChat: setIsLoading(false) is missing
catchChat_staysLoading(message) ==
    /\ chatState' = [chatState EXCEPT !.messages =
                        Append(@, [id |-> now + 1, type |-> "ai", content |-> errorContent(message),
                                   timestamp |-> now])]
    /\ isLoading' = isLoading

\* mutant of catchChat: the failure is not reported in the transcript
catchChat_silent(message) ==
    /\ chatState' = chatState
    /\ isLoading' = FALSE

\* the catch block of handleSubmit  (page.tsx:383-402)
catchChat(message) ==
    /\ chatState' = [chatState EXCEPT !.messages =
                        Append(@, [id |-> now + 1, type |-> "ai", content |-> errorContent(message),
                                   timestamp |-> now])]
    /\ isLoading' = FALSE

\* fetch rejects, the status is not 2xx, or response.json() rejects  (page.tsx:269-286)
chatFailed(k, message) ==
    /\ k \in 1..Len(chatCalls)
    /\ chatCalls' = Remove(chatCalls, k)
    /\ catchChat(message)
    /\ last' = History("chatFailed", NoData)
    /\ UNCHANGED seen
    /\ UNCHANGED <<input, showPersonaPopup, personaData, isGeneratingPersona, isTerminated,
                   shouldContinue, personaCalls, alertText, now>>

\* mutant of terminateRequested: the sentinel is honoured only when the
\* conversation is not to continue
terminateRequested_unlessContinue(data) ==
    /\ data.response = "terminate"
    /\ IsVal(data.updated_state)
    /\ ~Get(data.updated_state).continue_conversation

\* mutant of aiContent: the reply is shown whatever the flag says
aiContent_response(data) == data.response

\* if(data.response=="terminate")  (page.tsx:291)
terminateRequested(data) == data.response = "terminate"

\* aiMessage.content: data.response, replaced by the persona when the
\* conversation is not to continue  (page.tsx:300, 310-314)
aiContent(data) ==
    IF ~Get(data.updated_state).continue_conversation
    THEN Get(data.updated_state).persona
    ELSE data.response

\* mutant of nextChatState: the new assessments replace the previous ones
nextChatState_onlyNew(prev, aiMessage, newTraitData, us) ==
    [messages |-> Append(prev.messages, aiMessage),
     traitData |-> newTraitData,
     currentPriority |-> Val(us.current_priority),
     currentIteration |-> Val(us.current_iteration),
     backendState |-> Val(us)]

\* the updater passed to setChatState  (page.tsx:374-380)
nextChatState(prev, aiMessage, newTraitData, us) ==
    [messages |-> Append(prev.messages, aiMessage),
     traitData |-> prev.traitData \o newTraitData,
     currentPriority |-> Val(us.current_priority),
     currentIteration |-> Val(us.current_iteration),
     backendState |-> Val(us)]

\* handleSubmit after response.json() resolved with data  (page.tsx:286-382)
chatResolved(k, data) ==
    /\ k \in 1..Len(chatCalls)
    /\ chatCalls' = Remove(chatCalls, k)
    /\ isTerminated' = (isTerminated \/ terminateRequested(data))
    /\ IF ~IsVal(data.updated_state)
       THEN \* data.updated_state.continue_conversation throws a TypeError  (page.tsx:306)
            /\ catchChat("Cannot read properties of undefined (reading 'continue_conversation')")
            /\ UNCHANGED shouldContinue
       ELSE LET us == Get(data.updated_state)
                aiMessage == [id |-> now + 1, type |-> "ai",
                              content |-> aiContent(data),
                              timestamp |-> now]
                newTraitData == extractNewTraitData(us, chatCalls[k].closure.traitData, now)
            IN  /\ shouldContinue' = (shouldContinue /\ us.continue_conversation)
                /\ chatState' = nextChatState(chatState, aiMessage, newTraitData, us)
                /\ isLoading' = FALSE
    /\ last' = History("chatResolved", data)
    /\ seen' = IF IsVal(data.updated_state)
               THEN LET pushed == UNION {pushedIndices(Get(data.updated_state),
                                                       chatCalls[k].closure.traitData, t) : t \in Traits}
                    IN  [processed |-> data.updated_state,
                         materialized |-> seen.materialized \cup pushed,
                         again |-> seen.again \cup (seen.materialized \cap pushed)]
               ELSE seen
    /\ UNCHANGED <<input, showPersonaPopup, personaData, isGeneratingPersona,
                   personaCalls, alertText, now>>

\* generatePersona up to its await fetch  (page.tsx:196-216)
generatePersona ==
    /\ personaButtonRendered /\ ~personaButtonDisabled
    /\ IF ~IsVal(chatState.backendState)
       THEN /\ alertText' = "No assessment data available. Please have a conversation first."
            /\ UNCHANGED <<isGeneratingPersona, personaCalls>>
       ELSE /\ isGeneratingPersona' = TRUE
            /\ personaCalls' = Append(personaCalls, [state |-> chatState.backendState])
            /\ UNCHANGED alertText
    /\ last' = History("generatePersona", NoData)
    /\ UNCHANGED seen
    /\ UNCHANGED <<input, isLoading, showPersonaPopup, personaData, isTerminated,
                   chatState, shouldContinue, chatCalls, now>>

\* the /persona call resolved with a 2xx status and a body  (page.tsx:222-228, 232-234)
personaResolved(k, response) ==
    /\ k \in 1..Len(personaCalls)
    /\ personaCalls' = Remove(personaCalls, k)
    /\ personaData' = response
    /\ isTerminated' = TRUE
    /\ showPersonaPopup' = TRUE
    /\ isGeneratingPersona' = FALSE
    /\ last' = History("personaResolved", NoData)
    /\ UNCHANGED seen
    /\ UNCHANGED <<input, isLoading, chatState, shouldContinue, chatCalls, alertText, now>>

\* mutant of personaFailed: the finally block is missing
personaFailed_noFinally(k) ==
    /\ k \in 1..Len(personaCalls)
    /\ personaCalls' = Remove(personaCalls, k)
    /\ alertText' = "Failed to generate persona. Please try again."
    /\ isGeneratingPersona' = isGeneratingPersona
    /\ last' = History("personaFailed", NoData)
    /\ UNCHANGED seen
    /\ UNCHANGED <<input, isLoading, showPersonaPopup, personaData, isTerminated,
                   chatState, shouldContinue, chatCalls, now>>

\* the /persona call failed: the catch and finally blocks  (page.tsx:218-220, 229-234)
personaFailed(k) ==
    /\ k \in 1..Len(personaCalls)
    /\ personaCalls' = Remove(personaCalls, k)
    /\ alertText' = "Failed to generate persona. Please try again."
    /\ isGeneratingPersona' = FALSE
    /\ last' = History("personaFailed", NoData)
    /\ UNCHANGED seen
    /\ UNCHANGED <<input, isLoading, showPersonaPopup, personaData, isTerminated,
                   chatState, shouldContinue, chatCalls, now>>

\* onClick={() => setShowPersonaPopup(false)}  (page.tsx:726, 756)
closePersonaPopup ==
    /\ showPersonaPopup
    /\ showPersonaPopup' = FALSE
    /\ last' = History("closePersonaPopup", NoData)
    /\ UNCHANGED seen
    /\ UNCHANGED <<input, isLoading, personaData, isGeneratingPersona, isTerminated,
                   chatState, shouldContinue, chatCalls, personaCalls, alertText, now>>

\* a millisecond passes
tick ==
    /\ now < MaxTime
    /\ now' = now + 1
    /\ last' = History("tick", NoData)
    /\ UNCHANGED seen
    /\ UNCHANGED <<input, isLoading, showPersonaPopup, personaData, isGeneratingPersona, isTerminated,
                   chatState, shouldContinue, chatCalls, personaCalls, alertText>>

(***************************************************************************)
(* The environment: what the user types and what the backend answers.      *)
(***************************************************************************)
\* error.message of a failed call: fetch rejected, non-2xx status
ChatErrors == {"Failed to fetch", "HTTP error! status: 500"}

PersonaTexts == {"You are a cautious planner."}

\* the arrays of the responses of the full runs: none, one entry for the first
\* trait, MaxLen entries for each of the first three traits
UIArrays == <<OnPrefix(0, Absent), OnPrefix(1, Aligned(1)), OnPrefix(3, Aligned(MaxLen))>>

\* the responses of the full runs: every combination of the reply, the flag and
\* the arrays, and bodies without updated_state
UIResponses ==
    {Data(response, Val(UpdatedState(cont, IF cont THEN "" ELSE "Your persona: saver.",
                                     traits[n], n, UIArrays[n]))) :
        response \in {"hello", "terminate"}, cont \in BOOLEAN, n \in 1..Len(UIArrays)}
    \cup {Data(response, Undefined) : response \in {"hello", "terminate"}}

\* the full runs: every user event and every outcome of both calls.  The clock
\* is read but stands still here; SpecClock lets it advance.
Next ==
    \/ \E v \in Inputs : setInput(v)
    \/ handleSubmit
    \/ \E k \in 1..Len(chatCalls), data \in UIResponses : chatResolved(k, data)
    \/ \E k \in 1..Len(chatCalls), message \in ChatErrors : chatFailed(k, message)
    \/ generatePersona
    \/ \E k \in 1..Len(personaCalls), response \in PersonaTexts : personaResolved(k, response)
    \/ \E k \in 1..Len(personaCalls) : personaFailed(k)
    \/ closePersonaPopup

Spec == Init /\ [][Next]_vars

\* the reconciliation runs: one text, one error, every shape of the arrays
NextRecon ==
    \/ setInput(" hi ")
    \/ handleSubmit
    \/ \E k \in 1..Len(chatCalls), data \in ReconResponses : chatResolved(k, data)
    \/ \E k \in 1..Len(chatCalls) : chatFailed(k, "Failed to fetch")

SpecRecon == Init /\ [][NextRecon]_vars

\* the responses of the timed runs: the first two traits report n aligned entries
ClockResponses ==
    {Data("hello", Val(UpdatedState(TRUE, "", traits[1], n, OnPrefix(2, Aligned(n))))) : n \in 0..MaxLen}

\* the timed runs: the clock advances between the segments
NextClock ==
    \/ setInput(" hi ")
    \/ handleSubmit
    \/ \E k \in 1..Len(chatCalls), data \in ClockResponses : chatResolved(k, data)
    \/ \E k \in 1..Len(chatCalls) : chatFailed(k, "Failed to fetch")
    \/ tick

SpecClock == Init /\ [][NextClock]_vars

\* the aggregation runs: the renders of a session over each history, and the
\* persona control those renders enable from latestScores
NextAggregate ==
    \/ generatePersona
    \/ \E k \in 1..Len(personaCalls), response \in PersonaTexts : personaResolved(k, response)
    \/ \E k \in 1..Len(personaCalls) : personaFailed(k)
    \/ closePersonaPopup

SpecAggregate == InitAggregate /\ [][NextAggregate]_vars

(***************************************************************************)
(* Properties.  A step of handleSubmit's continuation is recognised by     *)
(* the history variable: last.op names the segment that produced the       *)
(* state, last.pre is chatState before it, last.data the body it read.     *)
(***************************************************************************)
\* the state was produced by a chat response processed to the end
chatSucceeded == last.op = "chatResolved" /\ IsVal(last.data.updated_state)

\* the state was produced by a chat call that failed: no response, or one whose processing threw
chatJustFailed == last.op = "chatFailed" \/ (last.op = "chatResolved" /\ ~IsVal(last.data.updated_state))

\* the records the last segment added for a trait
addedFor(trait) == existingCount(chatState.traitData, trait) - existingCount(last.pre.traitData, trait)

\* all four arrays of the trait have length n in updated_state
allOfLength(us, trait, n) ==
    /\ Len(OrEmpty(us.score[trait])) = n
    /\ Len(OrEmpty(us.confidence[trait])) = n
    /\ Len(OrEmpty(us.sentences[trait])) = n
    /\ Len(OrEmpty(us.rationale[trait])) = n

\* C1: processing a response whose updated_state is the one processed in the
\* previous successful turn adds no assessment for any trait.
C1_Idempotent ==
    (chatSucceeded /\ last.data.updated_state = last.pre.backendState)
        => \A t \in Traits : addedFor(t) = 0

storedLength(trait) ==
    IF IsVal(chatState.backendState) THEN arraysLength(Get(chatState.backendState), trait) ELSE 0

\* C3: for every trait the number of materialized records does not exceed the
\* length of the trait's arrays in the stored backend state, and no index of a
\* trait's arrays has had a record appended for it more than once.
C3_CountWithinArrays ==
    /\ \A t \in Traits : existingCount(chatState.traitData, t) <= storedLength(t)
    /\ seen.again = {}

(***************************************************************************)
(* Properties of the full runs.                                            *)
(***************************************************************************)
lastMessage == chatState.messages[Len(chatState.messages)]

\* the texts of the messages the catch block can build
FailureTexts ==
    {errorContent(m) : m \in ChatErrors \cup {"Cannot read properties of undefined (reading 'continue_conversation')"}}

\* C4: a processed response whose response field is "terminate" leaves the
\* session marked terminated, whatever updated_state holds.
C4_TerminateMarksTerminated ==
    (last.op = "chatResolved" /\ last.data.response = "terminate") => isTerminated

\* C4 witness: "terminate" arrived with continue_conversation true.
C4_Witness ==
    /\ chatSucceeded /\ last.data.response = "terminate"
    /\ Get(last.data.updated_state).continue_conversation
    /\ isTerminated

\* C5: the assistant message a successful response appends carries the persona
\* when continue_conversation is false and the response field when it is true.
C5_MessageText ==
    chatSucceeded =>
        LET us == Get(last.data.updated_state)
        IN  /\ Len(chatState.messages) = Len(last.pre.messages) + 1
            /\ lastMessage.type = "ai"
            /\ lastMessage.content = (IF us.continue_conversation THEN last.data.response ELSE us.persona)

\* C5 witness: continue_conversation false, the persona shown instead of the reply.
C5_Witness ==
    /\ chatSucceeded
    /\ ~Get(last.data.updated_state).continue_conversation
    /\ lastMessage.content = Get(last.data.updated_state).persona
    /\ lastMessage.content # last.data.response

\* the response read by the segment that produced the next state ends the conversation
endingResponse(h) ==
    /\ h.op = "chatResolved"
    /\ \/ h.data.response = "terminate"
       \/ IsVal(h.data.updated_state) /\ ~Get(h.data.updated_state).continue_conversation

\* C6: processing an ending response sets a termination flag; a set flag is
\* never reset; and while one is set no user message is appended and no /chat
\* request is issued.
C6_TerminationPermanent ==
    [][ /\ endingResponse(last') => (isTerminated' \/ ~shouldContinue')
        /\ isTerminated => isTerminated'
        /\ ~shouldContinue => ~shouldContinue'
        /\ (isTerminated \/ ~shouldContinue) =>
              /\ userMessages' = userMessages
              /\ Len(chatCalls') <= Len(chatCalls) ]_vars

\* C6 witness: the session was ended by a "terminate" reply (no persona was
\* ever generated) and the user has acted since.
C6_Witness ==
    /\ isTerminated /\ personaData = ""
    /\ last.op = "generatePersona"

\* C7: a failed chat call appends exactly one assistant message carrying the
\* failure text and changes nothing else of chatState.
C7_FailureKeepsState ==
    chatJustFailed =>
        /\ Len(chatState.messages) = Len(last.pre.messages) + 1
        /\ SubSeq(chatState.messages, 1, Len(last.pre.messages)) = last.pre.messages
        /\ lastMessage.type = "ai"
        /\ lastMessage.content \in FailureTexts
        /\ chatState.traitData = last.pre.traitData
        /\ chatState.currentPriority = last.pre.currentPriority
        /\ chatState.currentIteration = last.pre.currentIteration
        /\ chatState.backendState = last.pre.backendState

\* C7 witness: a call failed in a session that already held assessments.
C7_Witness ==
    /\ chatJustFailed
    /\ last.pre.traitData # <<>>
    /\ IsVal(chatState.backendState)
    /\ lastMessage.content \in FailureTexts

\* C8: after a failed chat call in a session not terminated the loading flag is
\* clear and the input accepts text; once non-empty text is typed the submission
\* is accepted; and an accepted submission appends a user message and issues a
\* /chat request.
C8_FailureDoesNotBlock ==
    /\ []((chatJustFailed /\ ~isTerminated) => (~isLoading /\ formRendered /\ ~inputDisabled))
    /\ [][(chatJustFailed /\ ~isTerminated /\ trim(input') # "") => submitAccepted']_vars
    /\ [][last'.op = "handleSubmit" =>
            /\ userMessages' = userMessages + 1
            /\ Len(chatCalls') = Len(chatCalls) + 1
            /\ chatCalls'[Len(chatCalls')].message = trim(input)]_vars

\* C8 witness: a submission accepted right after a failure message.
C8_Witness ==
    /\ last.op = "handleSubmit"
    /\ Len(last.pre.messages) > 0
    /\ last.pre.messages[Len(last.pre.messages)].content \in FailureTexts
    /\ Len(chatCalls) = 1

\* C9: at most one /chat and at most one /persona request are outstanding, and
\* while one is, the control that would issue another is disabled.
C9_SingleFlight ==
    /\ Len(chatCalls) <= 1
    /\ Len(personaCalls) <= 1
    /\ Len(chatCalls) = 1 => (submitDisabled /\ ~submitAccepted)
    /\ Len(personaCalls) = 1 => personaButtonDisabled

\* C9 witness: one call of each kind outstanding.
C9_Witness == Len(chatCalls) = 1 /\ Len(personaCalls) = 1

\* C10: a request just issued carries the updated_state of the most recent
\* response processed to the end: /chat carries it, or null when there is none;
\* /persona carries it.
C10_EchoesState ==
    /\ last.op = "handleSubmit" =>
          chatCalls[Len(chatCalls)].state = (IF IsVal(seen.processed) THEN seen.processed ELSE Null)
    /\ (last.op = "generatePersona" /\ last.pre.backendState # Undefined) =>
          personaCalls[Len(personaCalls)].state = seen.processed

\* C10 witness: a /chat request issued after a processed response and a failed call.
C10_Witness ==
    /\ last.op = "handleSubmit"
    /\ IsVal(seen.processed)
    /\ chatCalls[Len(chatCalls)].state = seen.processed
    /\ lastMessage.type = "user"
    /\ chatState.messages[Len(chatState.messages) - 1].content \in FailureTexts

(***************************************************************************)
(* Properties of the aggregation.                                          *)
(***************************************************************************)
\* the positions of the trait's scored assessments in the history
scoredAt(traitData, trait) ==
    {j \in 1..Len(traitData) : traitData[j].trait = trait /\ traitData[j].score # Undefined}

\* the sum of f over a finite set of positions
RECURSIVE SumOn(_, _)
SumOn(J, f) ==
    IF J = {} THEN 0
    ELSE LET j == CHOOSE x \in J : TRUE IN f[j] + SumOn(J \ {j}, f)

\* C11: getLatestTraitScores returns exactly one record for each trait with a
\* scored assessment and none for any other trait; the record's score is the
\* sum of the trait's defined scores over their count, and its confidence the
\* sum of the confidences of those scored assessments, an absent one counting
\* as 0, over the same count.
C11_OneAveragePerScoredTrait ==
    LET td == chatState.traitData
        out == getLatestTraitScores(td)
    IN  \A t \in Traits :
            LET J == scoredAt(td, t)
                rows == {k \in 1..Len(out) : out[k].trait = t}
            IN  /\ Cardinality(rows) = (IF J = {} THEN 0 ELSE 1)
                /\ \A k \in rows :
                      /\ out[k].score =
                            <<SumOn(J, [j \in J |-> Get(td[j].score)]), Cardinality(J)>>
                      /\ out[k].confidence =
                            <<SumOn(J, [j \in J |-> IF td[j].confidence = Undefined THEN 0
                                                     ELSE Get(td[j].confidence)]),
                              Cardinality(J)>>

\* C11 witness: scores 3 and 5 without confidence average to 8/2 and 0/2, next
\* to an unscored assessment of another trait that gets no record.
C11_Witness ==
    /\ Len(chatState.traitData) = 3
    /\ chatState.traitData[1] = Assessment(traits[1], Val(3), Undefined)
    /\ chatState.traitData[2] = Assessment(traits[2], Undefined, Val(8))
    /\ chatState.traitData[3] = Assessment(traits[1], Val(5), Undefined)
    /\ latestScores = <<[trait |-> traits[1], score |-> <<8, 2>>, confidence |-> <<0, 2>>]>>
    /\ last.op = "generatePersona"

(***************************************************************************)
(* Properties of the timed runs.                                           *)
(***************************************************************************)
\* C12: an assessment is attached beneath a message only if the message has
\* role user, is the last or second-to-last entry of the transcript, was
\* created strictly before the assessment's synthetic timestamp, and the
\* assessment carries at least one of sentence, score or rationale.
C12_AttachedOnlyToRecentUser ==
    \A m \in 1..Len(chatState.messages) : \A j \in messageTraitAssessments(m - 1) :
        /\ chatState.messages[m].type = "user"
        /\ m >= Len(chatState.messages) - 1
        /\ chatState.messages[m].timestamp < chatState.traitData[j].timestamp
        /\ \/ chatState.traitData[j].sentence \notin {Undefined, Val("")}
           \/ chatState.traitData[j].score # Undefined
           \/ chatState.traitData[j].rationale \notin {Undefined, Val("")}

\* C12 witness: after two turns the latest user message, second to last, shows
\* an assessment while the first user message, equally older than it, shows none.
C12_Witness ==
    /\ Len(chatState.messages) = 4
    /\ messageTraitAssessments(2) # {}
    /\ messageTraitAssessments(0) = {}
    /\ \E j \in messageTraitAssessments(2) :
          chatState.traitData[j].timestamp > chatState.messages[1].timestamp

\* C17: in every state the assessment list is strictly increasing in
\* timestamp: each assessment is stamped strictly later than the one before
\* it, whether both come from one reconciliation pass or from two.
C17_StrictlyIncreasing ==
    \A j \in 1..(Len(chatState.traitData) - 1) :
        chatState.traitData[j].timestamp < chatState.traitData[j + 1].timestamp

(***************************************************************************)
(* Properties of the persona control.                                      *)
(***************************************************************************)
\* the last segment issued a /persona request
personaIssued == last.op = "generatePersona" /\ Len(personaCalls) = 1

\* C13: whenever a /persona request is issued, at least 3 distinct traits have
\* at least one scored assessment.
C13_ThreeTraitsBeforePersona ==
    personaIssued =>
        Cardinality({t \in Traits : scoredAt(chatState.traitData, t) # {}}) >= 3

\* the persona button is rendered and enabled
personaEnabled == personaButtonRendered /\ ~personaButtonDisabled

\* C14 as stated: a failed /persona call appends an error message to the
\* transcript, and leaves the session not terminated, the popup not shown and
\* the persona button enabled.
C14_FailureInTranscript ==
    last.op = "personaFailed" =>
        /\ Len(chatState.messages) = Len(last.pre.messages) + 1
        /\ lastMessage.type = "ai"
        /\ ~isTerminated
        /\ ~showPersonaPopup
        /\ personaEnabled

\* C14 amended: a failed /persona call is reported by an alert dialog and
\* leaves the chat state, transcript included, as it was; it changes neither
\* the terminated flag nor the popup flag nor the persona text; and it clears
\* isGeneratingPersona, so that the persona button is enabled again.
C14_FailureAlerts ==
    [][last'.op = "personaFailed" =>
          /\ alertText' = "Failed to generate persona. Please try again."
          /\ chatState' = chatState
          /\ isTerminated' = isTerminated
          /\ showPersonaPopup' = showPersonaPopup
          /\ personaData' = personaData
          /\ isGeneratingPersona /\ ~isGeneratingPersona'
          /\ personaEnabled']_vars

\* C14 witness: a /persona call failed in a running session; the alert is up,
\* the transcript still ends with the assistant's reply, the button is enabled.
C14_Witness ==
    /\ last.op = "personaFailed"
    /\ alertText = "Failed to generate persona. Please try again."
    /\ chatState = last.pre
    /\ lastMessage.content = "hello"
    /\ ~isTerminated /\ ~showPersonaPopup
    /\ personaEnabled

(***************************************************************************)
(* Properties of the state a chat turn produces.                           *)
(***************************************************************************)
\* C15: a successful chat response leaves the previous messages followed by
\* exactly one new assistant message, the previous assessments in their order
\* followed by the newly materialized ones, and the priority, the iteration
\* and the backend state replaced by the response's current_priority,
\* current_iteration and whole updated_state.
C15_NextState ==
    chatSucceeded =>
        LET us == Get(last.data.updated_state)
            n == Len(last.pre.messages)
            c == Len(last.pre.traitData)
        IN  /\ Len(chatState.messages) = n + 1
            /\ SubSeq(chatState.messages, 1, n) = last.pre.messages
            /\ chatState.messages[n + 1].type = "ai"
            /\ Len(chatState.traitData) >= c
            /\ SubSeq(chatState.traitData, 1, c) = last.pre.traitData
            /\ SubSeq(chatState.traitData, c + 1, Len(chatState.traitData))
                  = extractNewTraitData(us, last.pre.traitData, now)
            /\ chatState.currentPriority = Val(us.current_priority)
            /\ chatState.currentIteration = Val(us.current_iteration)
            /\ chatState.backendState = last.data.updated_state

\* C15 witness: a second successful turn that adds assessments behind the
\* ones already held and changes the priority and the iteration.
C15_Witness ==
    /\ chatSucceeded
    /\ last.pre.traitData # <<>>
    /\ Len(chatState.traitData) > Len(last.pre.traitData)
    /\ chatState.currentPriority # last.pre.currentPriority
    /\ chatState.currentIteration # last.pre.currentIteration
    /\ chatState.backendState # last.pre.backendState

(***************************************************************************)
(* Properties of the two kinds of call together.                           *)
(***************************************************************************)
\* C16: a chat call in flight does not keep the persona request from being
\* issued: with a stored backend state, a scored trait and no persona call in
\* flight, generatePersona can run while a /chat request is pending, and the
\* /persona request it issues carries the stored backend state, the very blob
\* the pending /chat request carries and its response is about to replace.
C16_PersonaDuringChat ==
    /\ (/\ Len(chatCalls) = 1
        /\ IsVal(chatState.backendState)
        /\ Len(latestScores) >= 1
        /\ ~isGeneratingPersona) => ENABLED generatePersona
    /\ (last.op = "generatePersona" /\ Len(chatCalls) = 1) =>
          /\ Len(personaCalls) = 1
          /\ personaCalls[1].state = chatState.backendState
          /\ personaCalls[1].state = chatCalls[1].state

\* C16 witness: one /chat and one /persona request pending at the same time,
\* the persona request issued second and carrying the stored backend state.
C16_Witness ==
    /\ Len(chatCalls) = 1 /\ Len(personaCalls) = 1
    /\ isLoading /\ isGeneratingPersona
    /\ last.op = "generatePersona"
    /\ personaCalls[1].state = chatState.backendState
    /\ personaCalls[1].state = chatCalls[1].state

(***************************************************************************)
(* Properties of the transcript.                                           *)
(***************************************************************************)
\* the number of messages of the assistant role, replies and error messages
aiMessages == Cardinality({j \in 1..Len(chatState.messages) : chatState.messages[j].type = "ai"})

\* C18: the transcript alternates user and assistant messages starting with a
\* user message, and the user messages outnumber the assistant messages by 1
\* exactly when a chat call is outstanding and by 0 otherwise.
C18_Alternates ==
    /\ \A j \in 1..Len(chatState.messages) :
          chatState.messages[j].type = (IF j % 2 = 1 THEN "user" ELSE "ai")
    /\ userMessages - aiMessages = (IF Len(chatCalls) >= 1 THEN 1 ELSE 0)

\* C18 witness: a third message, of the user, is waiting for its answer after
\* a turn that ended in an error message.
C18_Witness ==
    /\ Len(chatState.messages) = 3
    /\ chatState.messages[2].content \in FailureTexts
    /\ lastMessage.type = "user"
    /\ Len(chatCalls) = 1
    /\ userMessages - aiMessages = 1

\* C19: once the session is marked terminated the chat state is frozen: no
\* later step changes the messages, the assessments, the priority, the
\* iteration or the backend state.
C19_FrozenAfterTermination ==
    [][isTerminated => chatState' = chatState]_vars

====
